---- MODULE Spec2Model ----
(***************************************************************************)
(* Model of src/app-test.js: the organization / crawler-configuration      *)
(* registry behind POST /api/v2/crawler.                                   *)
(*                                                                         *)
(* State: the contents of the two JSON files (org-list.json and            *)
(* org-config.json) plus the response to the last request handled.         *)
(* Every request handler runs synchronously from its first readJson to its *)
(* res.json, so in one server process one handler is one action (Spec).    *)
(* SpecRace has two server processes on the same two files: there every    *)
(* readJson and every writeJson of a handler is a step of its own, and     *)
(* proc holds each process's position, the request it is handling, what    *)
(* it has read, and the requests it has answered.                          *)
(*                                                                         *)
(* Numbers.  Organization ids are of the order of 10^12, beyond the        *)
(* integers of the model checker, so a non-negative integer n is kept as   *)
(* the pair <<n \div 10^6, n % 10^6>>; comparison, successor, predecessor  *)
(* and decimal printing are defined on pairs and are exact.                *)
(***************************************************************************)
EXTENDS Integers, Sequences, FiniteSets, TLC

VARIABLES orgFile, configFile, resp, proc

vars == <<orgFile, configFile, resp, proc>>

(***************************************************************************)
(* Bounds                                                                  *)
(***************************************************************************)
\* Requests that would make org-list.json longer than this are not taken.
MaxOrgs == 2

\* The requests the two processes of SpecRace take between them.
MaxReqs == 4

(***************************************************************************)
(* Numbers as pairs <<hi, lo>> standing for hi * 10^6 + lo, 0 <= lo < 10^6 *)
(***************************************************************************)
Limb == 1000 * 1000

NumLess(a, b) == a[1] < b[1] \/ (a[1] = b[1] /\ a[2] < b[2])

NumLeq(a, b) == a = b \/ NumLess(a, b)

NumSucc(a) == IF a[2] = Limb - 1 THEN <<a[1] + 1, 0>> ELSE <<a[1], a[2] + 1>>

NumPred(a) == IF a[2] = 0 THEN <<a[1] - 1, Limb - 1>> ELSE <<a[1], a[2] - 1>>

Zero == <<0, 0>>

\* const MIN_ORG_ID = 1000000000000;
MIN_ORG_ID == <<1000000, 0>>

\* const MAX_ORG_ID = 1999999999999;
MAX_ORG_ID == <<1999999, 999999>>

(***************************************************************************)
(* JavaScript values that an ORG_ID can be: a finite number, a string,     *)
(* null, or (in memory only) the numbers NaN and Infinity.  A value is     *)
(* kept with its kind t, its magnitude n (finite numbers) and the text s   *)
(* that ToString gives for it.                                             *)
(***************************************************************************)
Digit == <<"0", "1", "2", "3", "4", "5", "6", "7", "8", "9">>

RECURSIVE NatStr(_)
\* Decimal digits of a natural number below 10^6 (one limb), no padding.
NatStr(k) == IF k < 10 THEN Digit[k + 1] ELSE NatStr(k \div 10) \o Digit[(k % 10) + 1]

RECURSIVE PadStr(_, _)
\* The low limb printed with exactly w digits.
PadStr(k, w) == IF w = 0 THEN "" ELSE PadStr(k \div 10, w - 1) \o Digit[(k % 10) + 1]

\* Number::toString for a non-negative integer below 10^21.
NumStr(n) == IF n[1] = 0 THEN NatStr(n[2]) ELSE NatStr(n[1]) \o PadStr(n[2], 6)

JSNum(n) == [t |-> "number", n |-> n, s |-> NumStr(n)]

JSStr(s) == [t |-> "string", n |-> Zero, s |-> s]

JSNull == [t |-> "null", n |-> Zero, s |-> "null"]

JSNaN == [t |-> "NaN", n |-> Zero, s |-> "NaN"]

JSInfinity == [t |-> "Infinity", n |-> Zero, s |-> "Infinity"]

\* String(v): ToString of a JavaScript value.
String(v) == v.s

\* StringToNumber on the strings the model sends or stores: decimal
\* literals (a trailing ".0" does not change the value), the literal
\* Infinity, the empty string (0), and anything else (NaN).
StringToNumber(s) ==
    CASE s = "" -> JSNum(Zero)
      [] s = "1000000000000" -> JSNum(<<1000000, 0>>)
      [] s = "1000000000000.0" -> JSNum(<<1000000, 0>>)
      [] s = "1999999999999" -> JSNum(<<1999999, 999999>>)
      [] s = "2000000000000" -> JSNum(<<2000000, 0>>)
      [] s = "Infinity" -> JSInfinity
      [] OTHER -> JSNaN

\* Number(v): ToNumber of a JavaScript value.
Number(v) ==
    CASE v.t = "string" -> StringToNumber(v.s)
      [] v.t = "null" -> JSNum(Zero)
      [] OTHER -> v

\* JSON.stringify followed by JSON.parse on one value: a number that is not
\* finite is written as null.
jsonValue(v) == IF v.t \in {"NaN", "Infinity"} THEN JSNull ELSE v

(***************************************************************************)
(* generateOrgId                                                           *)
(***************************************************************************)
\* Number.isFinite(idNum) && idNum >= MIN_ORG_ID && idNum <= MAX_ORG_ID
InRange(idNum) ==
    /\ idNum.t = "number"
    /\ NumLeq(MIN_ORG_ID, idNum.n)
    /\ NumLeq(idNum.n, MAX_ORG_ID)

RECURSIVE maxIdFrom(_, _, _)
\* The for loop of generateOrgId from element i on, maxId so far.
maxIdFrom(orgs, i, maxId) ==
    IF i > Len(orgs) THEN maxId
    ELSE LET idNum == Number(orgs[i].ORG_ID)
         IN  maxIdFrom(orgs, i + 1,
                 IF InRange(idNum) /\ NumLess(maxId, idNum.n) THEN idNum.n ELSE maxId)

\* generateOrgId returning maxId itself: the "+ 1" of line 37 forgotten.
generateOrgId_NoIncrement(orgs) ==
    LET next == maxIdFrom(orgs, 1, NumPred(MIN_ORG_ID))
    IN  IF NumLess(MAX_ORG_ID, next) THEN [ok |-> FALSE, id |-> Zero]
        ELSE [ok |-> TRUE, id |-> next]

\* generateOrgId without the check of lines 38-40.
generateOrgId_NoLimit(orgs) ==
    [ok |-> TRUE, id |-> NumSucc(maxIdFrom(orgs, 1, NumPred(MIN_ORG_ID)))]

\* [ok |-> FALSE] stands for throw new Error('OrgId range exhausted').
generateOrgId(orgs) ==
    LET next == NumSucc(maxIdFrom(orgs, 1, NumPred(MIN_ORG_ID)))
    IN  IF NumLess(MAX_ORG_ID, next) THEN [ok |-> FALSE, id |-> Zero]
        ELSE [ok |-> TRUE, id |-> next]

(***************************************************************************)
(* Configuration documents: functions from key to value.                   *)
(***************************************************************************)
DEFAULT_CONFIG ==
    [isDefault |-> TRUE,
     enabledFeatures |-> <<"2", "5", "6", "9", "10", "11">>,
     includeCrawledURLCountInResponse |-> FALSE,
     throttleTimeInterval |-> "1D",
     whiteListedDomains |-> <<"help.zoho.com", "docs.catalyst.zoho.com",
                              "blogs.manageengine.com", "www.manageengine.com",
                              "blog.zoho.com">>,
     throttleRequestCount |-> 50,
     maxDepthAllowed |-> -1,
     maxPagesToFetchAllowed |-> 20000,
     maxAsyncResponseRate |-> 100,
     requestPriority |-> 5,
     isDynamicCrawlingAllowed |-> TRUE,
     enabledCrawlerFields |-> <<"Html", "OutGoingURLs", "Markdown">>,
     additionalQueryParams |-> <<"requestId", "recordId", "seedStatus", "recordStatus">>]

\* An object with no own enumerable property: {} and, as far as spread and
\* JSON.stringify see it, Object.prototype.
EmptyDoc == [k \in {} |-> 0]

\* The spread operands in the other order: { ...config, ...existingConfig }.
Merge_ExistingWins(existingConfig, config) ==
    [k \in (DOMAIN existingConfig) \cup (DOMAIN config) |->
        IF k \in DOMAIN existingConfig THEN existingConfig[k] ELSE config[k]]

\* { ...existingConfig, ...config }
Merge(existingConfig, config) ==
    [k \in (DOMAIN existingConfig) \cup (DOMAIN config) |->
        IF k \in DOMAIN config THEN config[k] ELSE existingConfig[k]]

(***************************************************************************)
(* JSON.parse of the config field.  The texts the model sends:             *)
(*   an object overriding one default key, an object that also overrides   *)
(*   isDefault and adds a key the default lacks, and a text that is not    *)
(*   JSON.                                                                 *)
(* obj is what { ...config } copies: the own enumerable properties.        *)
(***************************************************************************)
CfgThrottle == "{\"throttleRequestCount\":75}"

CfgNotDefault == "{\"isDefault\":false,\"throttleRequestCount\":75,\"note\":\"x\"}"

CfgBad == "{bad"

JSONparse(text) ==
    CASE text = CfgThrottle -> [ok |-> TRUE, obj |-> [throttleRequestCount |-> 75]]
      [] text = CfgNotDefault -> [ok |-> TRUE, obj |-> [isDefault |-> FALSE, throttleRequestCount |-> 75, note |-> "x"]]
      [] OTHER -> [ok |-> FALSE, obj |-> EmptyDoc]

(***************************************************************************)
(* The configs object { [orgId]: configObj }: a sequence of entries in     *)
(* property order (what Object.values walks and JSON.stringify writes).    *)
(***************************************************************************)
HasOwn(configs, key) == \E i \in 1..Len(configs) : configs[i].key = key

OwnIndex(configs, key) == CHOOSE i \in 1..Len(configs) : configs[i].key = key

\* configs[key] as a sequence: <<value>>, or <<>> for undefined.  A key
\* that is no own property is looked up on Object.prototype, where
\* "__proto__" yields Object.prototype itself, an object.
GetProp(configs, key) ==
    IF HasOwn(configs, key) THEN <<configs[OwnIndex(configs, key)].doc>>
    ELSE IF key = "__proto__" THEN <<EmptyDoc>>
    ELSE <<>>

\* An array index: the canonical decimal form of an integer in 0 .. 2^32 - 2.
\* Such keys come first in property order, ascending; all others follow in
\* insertion order.
IsArrayIndex(key) ==
    LET v == StringToNumber(key)
    IN  v.t = "number" /\ String(v) = key /\ NumLeq(v.n, <<4294, 967294>>)

\* Where a new key goes in property order.
InsertAt(configs, key) ==
    IF IsArrayIndex(key)
    THEN 1 + Cardinality({i \in 1..Len(configs) :
                 /\ IsArrayIndex(configs[i].key)
                 /\ NumLess(StringToNumber(configs[i].key).n, StringToNumber(key).n)})
    ELSE Len(configs) + 1

\* A store that adds an entry on every write instead of replacing the one
\* under the same key.
SetProp_AlwaysAppend(configs, key, doc) ==
    IF key = "__proto__" THEN configs
    ELSE Append(configs, [key |-> key, doc |-> doc])

\* configs[key] = doc, as JSON.stringify then sees the object.  Assigning
\* to "__proto__" runs the Object.prototype setter: it replaces the
\* prototype and creates no own property.
SetProp(configs, key, doc) ==
    IF key = "__proto__" THEN configs
    ELSE IF HasOwn(configs, key)
    THEN [configs EXCEPT ![OwnIndex(configs, key)].doc = doc]
    ELSE LET p == InsertAt(configs, key)
         IN  SubSeq(configs, 1, p - 1) \o <<[key |-> key, doc |-> doc]>>
                 \o SubSeq(configs, p, Len(configs))

(***************************************************************************)
(* readJson / writeJson                                                    *)
(***************************************************************************)
\* writeJson(ORG_FILE, orgs) then readJson(ORG_FILE): every record as JSON
\* keeps it.
writeOrgs(orgs) ==
    [i \in 1..Len(orgs) |->
        [ORG_ID |-> jsonValue(orgs[i].ORG_ID), ORG_NAME |-> orgs[i].ORG_NAME]]

(***************************************************************************)
(* Requests and responses                                                  *)
(***************************************************************************)
\* res.status(status).json({message, details}): details is a list of
\* organizations (getAllOrg, createOrg) or one document (getOrgConfig,
\* updateOrgConfig); orgs and docs are empty where the response has none.
Response(status, message, orgs, docs) ==
    [status |-> status, message |-> message, orgs |-> orgs, docs |-> docs]

\* The form fields of req.body, as the strings multer delivers; "" stands
\* for a field that is absent or empty (both are falsy).
\*
\* orgId: the first id and the last id of the range, a second spelling of
\* the first id, a number above the range, and a key that every object
\* inherits from Object.prototype.
OrgIds == {"1000000000000", "1000000000000.0", "1999999999999", "2000000000000",
           "__proto__"}

OrgIdInputs == OrgIds \cup {""}

OrgNameInputs == {"", "Acme", "Beta"}

ConfigInputs == {CfgThrottle, CfgNotDefault}

\* Well-formed updateOrgConfig requests <<orgId, orgName, config>>: every
\* orgId without an orgName, and the first id of the range and the id above
\* the range also with an orgName that createOrg uses.
ValidUpdates ==
    (OrgIds \X {""} \X ConfigInputs)
        \cup ({"1000000000000", "2000000000000"} \X {"Acme"} \X ConfigInputs)

\* updateOrgConfig requests with orgId missing, config missing or config
\* not JSON.
InvalidUpdates ==
    ({""} \X {""} \X ConfigInputs) \cup (OrgIds \X {""} \X {"", CfgBad})

UpdateInputs == ValidUpdates \cup InvalidUpdates

\* The server processes of SpecRace.
Procs == {1, 2}

\* A process between two requests; log holds the requests it has answered,
\* each with what the handler had read and the response it sent.
Idle(log) == [pc |-> "idle", req |-> <<>>, orgs |-> <<>>, configs |-> <<>>, log |-> log]

Init ==
    /\ orgFile = <<>>
    /\ configFile = <<>>
    /\ resp = Response(0, "", <<>>, <<>>)
    /\ proc = [p \in Procs |-> Idle(<<>>)]

(***************************************************************************)
(* case 'getAllOrg'                                                        *)
(***************************************************************************)
getAllOrg ==
    /\ resp' = Response(200, "Org list fetched successfully", orgFile, <<>>)
    /\ UNCHANGED <<orgFile, configFile, proc>>

(***************************************************************************)
(* case 'createOrg'                                                        *)
(***************************************************************************)
\* orgs.some(o => o.ORG_NAME === orgName)
nameExists(orgs, orgName) == \E i \in 1..Len(orgs) : orgs[i].ORG_NAME = orgName

\* createOrg without the check of lines 132-140.
createOrgResult_NoNameCheck(orgs, configs, orgName) ==
    IF orgName = ""
    THEN [orgs |-> orgs, configs |-> configs,
          resp |-> Response(400, "Missing orgName", <<>>, <<>>)]
    ELSE LET newId == generateOrgId(orgs)
         IN  IF ~newId.ok
             THEN [orgs |-> orgs, configs |-> configs,
                   resp |-> Response(500, "OrgId range exhausted", <<>>, <<>>)]
             ELSE LET newOrg == [ORG_ID |-> JSNum(newId.id), ORG_NAME |-> orgName]
                  IN  [orgs |-> writeOrgs(Append(orgs, newOrg)), configs |-> configs,
                       resp |-> Response(200, "Org created successfully",
                                         <<newOrg>>, <<>>)]

\* The handler as a function of the two files and the name sent: the files
\* as it leaves them (it never opens org-config.json) and the response.
createOrgResult(orgs, configs, orgName) ==
    IF orgName = ""
    THEN [orgs |-> orgs, configs |-> configs,
          resp |-> Response(400, "Missing orgName", <<>>, <<>>)]
    ELSE IF nameExists(orgs, orgName)
    THEN [orgs |-> orgs, configs |-> configs,
          resp |-> Response(409, "OrgName already exists", <<>>, <<>>)]
    ELSE LET newId == generateOrgId(orgs)
         IN  IF ~newId.ok
             THEN [orgs |-> orgs, configs |-> configs,
                   resp |-> Response(500, "OrgId range exhausted", <<>>, <<>>)]
             ELSE LET newOrg == [ORG_ID |-> JSNum(newId.id), ORG_NAME |-> orgName]
                  IN  [orgs |-> writeOrgs(Append(orgs, newOrg)), configs |-> configs,
                       resp |-> Response(200, "Org created successfully",
                                         <<newOrg>>, <<>>)]

createOrg(orgName) ==
    LET r == createOrgResult(orgFile, configFile, orgName)
    IN  /\ Len(r.orgs) <= MaxOrgs
        /\ orgFile' = r.orgs
        /\ configFile' = r.configs
        /\ resp' = r.resp
        /\ UNCHANGED proc

(***************************************************************************)
(* case 'getOrgConfig'                                                     *)
(***************************************************************************)
\* orgs.some(o => String(o.ORG_ID) === String(orgId))
orgExists(orgs, orgId) == \E i \in 1..Len(orgs) : String(orgs[i].ORG_ID) = orgId

\* c && c.isDefault === true
IsDefaultDoc(c) == "isDefault" \in DOMAIN c /\ c["isDefault"] = TRUE

\* Object.values(configs).find(c => c && c.isDefault === true), as a
\* sequence: <<doc>>, or <<>> for undefined.
defaultInFile(configs) ==
    LET hits == {i \in 1..Len(configs) : IsDefaultDoc(configs[i].doc)}
    IN  IF hits = {} THEN <<>>
        ELSE <<configs[CHOOSE i \in hits : \A j \in hits : i <= j].doc>>

\* Lines 190-198: the document getOrgConfig answers with.
resolveConfig(configs, orgId) ==
    LET config == GetProp(configs, orgId)
    IN  IF config # <<>> THEN config[1]
        ELSE IF defaultInFile(configs) # <<>> THEN defaultInFile(configs)[1]
        ELSE DEFAULT_CONFIG

\* getOrgConfig without the existence check of lines 177-188.
getOrgConfigResult_NoExistsCheck(orgs, configs, orgId) ==
    IF orgId = ""
    THEN Response(400, "Missing orgId", <<>>, <<>>)
    ELSE Response(200, "Org config fetched successfully", <<>>,
                  <<resolveConfig(configs, orgId)>>)

getOrgConfigResult(orgs, configs, orgId) ==
    IF orgId = ""
    THEN Response(400, "Missing orgId", <<>>, <<>>)
    ELSE IF ~orgExists(orgs, orgId)
    THEN Response(500, "OrgId not found", <<>>, <<>>)
    ELSE Response(200, "Org config fetched successfully", <<>>,
                  <<resolveConfig(configs, orgId)>>)

getOrgConfig(orgId) ==
    /\ resp' = getOrgConfigResult(orgFile, configFile, orgId)
    /\ UNCHANGED <<orgFile, configFile, proc>>

(***************************************************************************)
(* case 'updateOrgConfig'                                                  *)
(***************************************************************************)
\* configs[orgId] || DEFAULT_CONFIG
existingConfig(configs, orgId) ==
    IF GetProp(configs, orgId) # <<>> THEN GetProp(configs, orgId)[1]
    ELSE DEFAULT_CONFIG

\* Number.isNaN(Number(orgId)) ? orgId : Number(orgId)
autoOrgId(orgId) ==
    IF StringToNumber(orgId).t = "NaN" THEN JSStr(orgId) ELSE StringToNumber(orgId)

\* req.body.orgName || `Org-${orgId}`
autoOrgName(orgId, orgName) == IF orgName # "" THEN orgName ELSE "Org-" \o orgId

\* ensureOrg with orgs.unshift(newOrg) for the orgs.push(newOrg) of line 258.
ensureOrg_Unshift(orgs, orgId, orgName) ==
    IF orgExists(orgs, orgId) THEN orgs
    ELSE writeOrgs(<<[ORG_ID |-> autoOrgId(orgId),
                      ORG_NAME |-> autoOrgName(orgId, orgName)]>> \o orgs)

\* Lines 245-261: the org list after the handler made sure orgId is in it.
ensureOrg(orgs, orgId, orgName) ==
    IF orgExists(orgs, orgId) THEN orgs
    ELSE writeOrgs(Append(orgs, [ORG_ID |-> autoOrgId(orgId),
                                 ORG_NAME |-> autoOrgName(orgId, orgName)]))

\* updateOrgConfig that takes a config it cannot parse for an empty object
\* and goes on, instead of returning at lines 223-228.
updateOrgConfigResult_Lenient(orgs, configs, orgId, orgName, config) ==
    IF orgId = "" \/ config = ""
    THEN [orgs |-> orgs, configs |-> configs,
          resp |-> Response(400, "Missing orgId or config", <<>>, <<>>)]
    ELSE LET mergedConfig == Merge(existingConfig(configs, orgId), JSONparse(config).obj)
         IN  [orgs |-> ensureOrg(orgs, orgId, orgName),
              configs |-> SetProp(configs, orgId, mergedConfig),
              resp |-> Response(200, "Org config updated successfully", <<>>,
                                <<mergedConfig>>)]

updateOrgConfigResult(orgs, configs, orgId, orgName, config) ==
    IF orgId = "" \/ config = ""
    THEN [orgs |-> orgs, configs |-> configs,
          resp |-> Response(400, "Missing orgId or config", <<>>, <<>>)]
    ELSE IF ~JSONparse(config).ok
    THEN [orgs |-> orgs, configs |-> configs,
          resp |-> Response(400, "Invalid JSON in config field", <<>>, <<>>)]
    ELSE LET mergedConfig == Merge(existingConfig(configs, orgId), JSONparse(config).obj)
         IN  [orgs |-> ensureOrg(orgs, orgId, orgName),
              configs |-> SetProp(configs, orgId, mergedConfig),
              resp |-> Response(200, "Org config updated successfully", <<>>,
                                <<mergedConfig>>)]

updateOrgConfig(orgId, orgName, config) ==
    LET r == updateOrgConfigResult(orgFile, configFile, orgId, orgName, config)
    IN  /\ Len(r.orgs) <= MaxOrgs
        /\ orgFile' = r.orgs
        /\ configFile' = r.configs
        /\ resp' = r.resp
        /\ UNCHANGED proc

(***************************************************************************)
(* The server: one request at a time                                       *)
(***************************************************************************)
Next ==
    \/ getAllOrg
    \/ \E orgName \in OrgNameInputs : createOrg(orgName)
    \/ \E orgId \in OrgIdInputs : getOrgConfig(orgId)
    \/ \E u \in UpdateInputs : updateOrgConfig(u[1], u[2], u[3])

Spec == Init /\ [][Next]_vars

(***************************************************************************)
(* Two server processes on the same files                                  *)
(***************************************************************************)
\* The requests of SpecRace.  Each process serves one client, and each
\* client registers and configures its own organization: createOrg with
\* the client's name, and updateOrgConfig for the client's orgId (an id
\* createOrg allocates for one, an id it never allocates for the other).
RaceNames(p) == IF p = 1 THEN {"Acme"} ELSE {"Beta"}

RaceUpdates(p) ==
    (IF p = 1 THEN {"1000000000000"} ELSE {"2000000000000"}) \X {""} \X {CfgThrottle}

\* The requests taken so far: answered or in hand.
RECURSIVE Taken(_)
Taken(ps) ==
    IF ps = {} THEN 0
    ELSE LET p == CHOOSE q \in ps : TRUE
         IN  Len(proc[p].log) + (IF proc[p].pc = "idle" THEN 0 ELSE 1) + Taken(ps \ {p})

\* The process answers its request and is ready for the next one.
Answer(p, r) ==
    Idle(Append(proc[p].log,
                [req |-> proc[p].req, orgs |-> proc[p].orgs,
                 configs |-> proc[p].configs, resp |-> r]))

\* createOrg up to line 130: let orgs = readJson(ORG_FILE)
raceCreateOrgLoad(p, orgName) ==
    /\ proc[p].pc = "idle"
    /\ Taken(Procs) < MaxReqs
    /\ proc' = [proc EXCEPT ![p].pc = "createOrgStore",
                            ![p].req = <<"createOrg", orgName>>,
                            ![p].orgs = orgFile]
    /\ UNCHANGED <<orgFile, configFile, resp>>

\* raceCreateOrgStore working on the list as the file holds it now, not on
\* the list read at line 129.
raceCreateOrgStore_Reread(p) ==
    /\ proc[p].pc = "createOrgStore"
    /\ LET r == createOrgResult(orgFile, <<>>, proc[p].req[2])
       IN  /\ orgFile' = IF r.resp.status = 200 THEN r.orgs ELSE orgFile
           /\ resp' = r.resp
           /\ proc' = [proc EXCEPT ![p] = Answer(p, r.resp)]
    /\ UNCHANGED configFile

\* createOrg from line 132: the name check, generateOrgId and the push on
\* the list read at line 129, writeJson(ORG_FILE, ...) on success, res.json.
raceCreateOrgStore(p) ==
    /\ proc[p].pc = "createOrgStore"
    /\ LET r == createOrgResult(proc[p].orgs, <<>>, proc[p].req[2])
       IN  /\ orgFile' = IF r.resp.status = 200 THEN r.orgs ELSE orgFile
           /\ resp' = r.resp
           /\ proc' = [proc EXCEPT ![p] = Answer(p, r.resp)]
    /\ UNCHANGED configFile

\* updateOrgConfig up to line 232: const configs = readJson(CONFIG_FILE)
raceUpdateLoadConfigs(p, u) ==
    /\ proc[p].pc = "idle"
    /\ Taken(Procs) < MaxReqs
    /\ proc' = [proc EXCEPT ![p].pc = "updateStoreConfigs",
                            ![p].req = <<"updateOrgConfig", u[1], u[2], u[3]>>,
                            ![p].configs = configFile]
    /\ UNCHANGED <<orgFile, configFile, resp>>

\* Lines 233-242: the merge on the map read at line 232 and
\* writeJson(CONFIG_FILE, configs).
raceUpdateStoreConfigs(p) ==
    /\ proc[p].pc = "updateStoreConfigs"
    /\ configFile' = updateOrgConfigResult(<<>>, proc[p].configs, proc[p].req[2],
                                           proc[p].req[3], proc[p].req[4]).configs
    /\ proc' = [proc EXCEPT ![p].pc = "updateLoadOrgs"]
    /\ UNCHANGED <<orgFile, resp>>

\* Lines 246-247: let orgs = readJson(ORG_FILE)
raceUpdateLoadOrgs(p) ==
    /\ proc[p].pc = "updateLoadOrgs"
    /\ proc' = [proc EXCEPT ![p].pc = "updateStoreOrgs", ![p].orgs = orgFile]
    /\ UNCHANGED <<orgFile, configFile, resp>>

\* Lines 249-269: the push on the list read at line 246 and
\* writeJson(ORG_FILE, ...) when orgId is not in it, then res.json.
raceUpdateStoreOrgs(p) ==
    /\ proc[p].pc = "updateStoreOrgs"
    /\ LET r == updateOrgConfigResult(proc[p].orgs, proc[p].configs, proc[p].req[2],
                                      proc[p].req[3], proc[p].req[4])
       IN  /\ orgFile' = IF orgExists(proc[p].orgs, proc[p].req[2]) THEN orgFile
                         ELSE r.orgs
           /\ resp' = r.resp
           /\ proc' = [proc EXCEPT ![p] = Answer(p, r.resp)]
    /\ UNCHANGED configFile

NextRace ==
    \E p \in Procs :
        \/ \E orgName \in RaceNames(p) : raceCreateOrgLoad(p, orgName)
        \/ raceCreateOrgStore(p)
        \/ \E u \in RaceUpdates(p) : raceUpdateLoadConfigs(p, u)
        \/ raceUpdateStoreConfigs(p)
        \/ raceUpdateLoadOrgs(p)
        \/ raceUpdateStoreOrgs(p)

SpecRace == Init /\ [][NextRace]_vars

(***************************************************************************)
(* Properties                                                              *)
(***************************************************************************)
\* The last response is the success response of the named handler.
Created == resp.status = 200 /\ resp.message = "Org created successfully"

Updated == resp.status = 200 /\ resp.message = "Org config updated successfully"

\* C1: no two records of the organization list have the same id, whatever
\* createOrg and updateOrgConfig requests were handled.
C1_UniqueOrgIds ==
    \A i, j \in 1..Len(orgFile) :
        i # j => orgFile[i].ORG_ID # orgFile[j].ORG_ID

\* C2 (I1): every id in the organization list is a number in
\* [MIN_ORG_ID, MAX_ORG_ID].
C2_AllIdsInRange ==
    \A i \in 1..Len(orgFile) :
        /\ orgFile[i].ORG_ID.t = "number"
        /\ ~NumLess(orgFile[i].ORG_ID.n, <<1000000, 0>>)
        /\ ~NumLess(<<1999999, 999999>>, orgFile[i].ORG_ID.n)

\* C3 (I2): no two records of the organization list have the same name.
C3_UniqueOrgNames ==
    \A i, j \in 1..Len(orgFile) :
        i # j => orgFile[i].ORG_NAME # orgFile[j].ORG_NAME

\* The organization list holds a record whose id is the number n.
HasId(orgs, n) ==
    \E i \in 1..Len(orgs) : orgs[i].ORG_ID.t = "number" /\ orgs[i].ORG_ID.n = n

\* The numbers in [1000000000000, 1999999999999] that Number() gives for
\* the ids of the organization list.
InRangeIds(orgs) ==
    {Number(orgs[i].ORG_ID).n : i \in
        {j \in 1..Len(orgs) :
            /\ Number(orgs[j].ORG_ID).t = "number"
            /\ ~NumLess(Number(orgs[j].ORG_ID).n, <<1000000, 0>>)
            /\ ~NumLess(<<1999999, 999999>>, Number(orgs[j].ORG_ID).n)}}

\* What C4 says of the id that generateOrgId returns for the list orgs.
AllocatedFrom(orgs, id) ==
    /\ \A m \in InRangeIds(orgs) : NumLess(m, id)
    /\ ~HasId(orgs, id)
    /\ \A i \in 1..Len(orgs) : String(orgs[i].ORG_ID) # NumStr(id)
    /\ ~NumLess(id, <<1000000, 0>>)
    /\ ~NumLess(<<1999999, 999999>>, id)
    /\ InRangeIds(orgs) = {} => id = <<1000000, 0>>

\* C4: whenever generateOrgId succeeds on the organization list, the id it
\* returns is greater than every in-range id of the list, is the id of no
\* record of the list, lies in [1000000000000, 1999999999999], and is
\* 1000000000000 when the list has no in-range id.  The same holds of the
\* record a successful createOrg has just appended, relative to the records
\* before it, so createOrg on an empty store answers with id 1000000000000.
C4_AllocatorMonotonic ==
    /\ generateOrgId(orgFile).ok => AllocatedFrom(orgFile, generateOrgId(orgFile).id)
    /\ Created =>
        LET before == SubSeq(orgFile, 1, Len(orgFile) - 1)
            newOrg == orgFile[Len(orgFile)]
        IN  /\ resp.orgs = <<newOrg>>
            /\ newOrg.ORG_ID.t = "number"
            /\ AllocatedFrom(before, newOrg.ORG_ID.n)
            /\ before = <<>> => String(newOrg.ORG_ID) = "1000000000000"

\* C4 witness: createOrg has answered with the id 1000000000001 for a list
\* that held the id 1000000000000.
C4_Witness ==
    /\ Created
    /\ resp.orgs[1].ORG_ID.n = <<1000000, 1>>
    /\ HasId(SubSeq(orgFile, 1, Len(orgFile) - 1), <<1000000, 0>>)

\* The organization list holds a record with this name.
HasName(orgs, name) == \E i \in 1..Len(orgs) : orgs[i].ORG_NAME = name

\* C5: a createOrg request whose name is the name of a record of the list
\* is answered 409 "OrgName already exists" and leaves the organization
\* list and the configuration map as they were.
C5_DuplicateNameRejected ==
    \A orgName \in OrgNameInputs :
        HasName(orgFile, orgName) =>
            LET r == createOrgResult(orgFile, configFile, orgName)
            IN  /\ r.resp.status = 409
                /\ r.resp.message = "OrgName already exists"
                /\ r.orgs = orgFile
                /\ r.configs = configFile

\* C5 witness: a createOrg request has been answered 409 with a store that
\* holds an organization and a configuration entry.
C5_Witness ==
    /\ resp.status = 409
    /\ resp.message = "OrgName already exists"
    /\ orgFile # <<>>
    /\ configFile # <<>>

\* C6: while the organization list holds the id 1999999999999,
\* generateOrgId fails, and a createOrg request with a non-empty name that
\* no record has is answered 500 "OrgId range exhausted" and appends
\* nothing.
C6_RangeExhausted ==
    HasId(orgFile, <<1999999, 999999>>) =>
        /\ ~generateOrgId(orgFile).ok
        /\ \A orgName \in OrgNameInputs :
              (orgName # "" /\ ~HasName(orgFile, orgName)) =>
                  LET r == createOrgResult(orgFile, configFile, orgName)
                  IN  /\ r.resp.status = 500
                      /\ r.resp.message = "OrgId range exhausted"
                      /\ r.orgs = orgFile

\* C6 witness: a createOrg request has been answered 500 with the id
\* 1999999999999 in the list.
C6_Witness ==
    /\ resp.status = 500
    /\ resp.message = "OrgId range exhausted"
    /\ HasId(orgFile, <<1999999, 999999>>)

\* The configuration map holds an entry under this key.
HasEntry(configs, key) == \E i \in 1..Len(configs) : configs[i].key = key

\* The document the map holds under a key it has an entry for.
EntryDoc(configs, key) ==
    configs[CHOOSE i \in 1..Len(configs) : configs[i].key = key].doc

\* The object JSON.parse gives for each config text that is JSON.
Partial(config) ==
    IF config = CfgThrottle THEN [throttleRequestCount |-> 75]
    ELSE [isDefault |-> FALSE, throttleRequestCount |-> 75, note |-> "x"]

BaseDocs == {DEFAULT_CONFIG, EmptyDoc} \cup {configFile[i].doc : i \in 1..Len(configFile)}

\* C8: merge(merge(B, P), P) = merge(B, P) for every base B and partial P,
\* and a well-formed updateOrgConfig request sent a second time leaves the
\* configuration map as the first left it and returns the same document.
C8_MergeIdempotent ==
    /\ \A B \in BaseDocs : \A config \in ConfigInputs :
          Merge(Merge(B, Partial(config)), Partial(config)) = Merge(B, Partial(config))
    /\ \A u \in ValidUpdates :
          LET first == updateOrgConfigResult(orgFile, configFile, u[1], u[2], u[3])
              second == updateOrgConfigResult(first.orgs, first.configs, u[1], u[2], u[3])
          IN  /\ second.configs = first.configs
              /\ second.resp = first.resp

\* C8 witness: the state is the one a well-formed updateOrgConfig request
\* for a stored key has just left, and sending that request again leaves it.
C8_Witness ==
    /\ Updated
    /\ \E u \in ValidUpdates :
          LET again == updateOrgConfigResult(orgFile, configFile, u[1], u[2], u[3])
          IN  /\ HasEntry(configFile, u[1])
              /\ again.resp = resp
              /\ again.configs = configFile
              /\ again.orgs = orgFile

\* The first document of the map, in the map's order, with isDefault true.
FirstDefault(configs) ==
    LET hits == {i \in 1..Len(configs) :
                    /\ "isDefault" \in DOMAIN configs[i].doc
                    /\ configs[i].doc["isDefault"] = TRUE}
    IN  IF hits = {} THEN <<>>
        ELSE <<configs[CHOOSE i \in hits : \A j \in hits : i <= j].doc>>

\* C9: for an orgId that names a record of the organization list,
\* getOrgConfig returns the map's entry under orgId when there is one,
\* else the first document of the map with isDefault true when there is
\* one, else the hardcoded default.
C9_ResolverFallbackOrder ==
    \A orgId \in OrgIds :
        (\E i \in 1..Len(orgFile) : String(orgFile[i].ORG_ID) = orgId) =>
            LET r == getOrgConfigResult(orgFile, configFile, orgId)
            IN  /\ r.status = 200
                /\ r.docs =
                      IF HasEntry(configFile, orgId) THEN <<EntryDoc(configFile, orgId)>>
                      ELSE IF FirstDefault(configFile) # <<>> THEN FirstDefault(configFile)
                      ELSE <<DEFAULT_CONFIG>>

\* C10: an updateOrgConfig request whose config is not JSON, or that lacks
\* orgId or config, is answered 400 and leaves the configuration map and
\* the organization list as they were.
C10_InvalidConfigRejected ==
    \A u \in InvalidUpdates :
        LET r == updateOrgConfigResult(orgFile, configFile, u[1], u[2], u[3])
        IN  /\ r.resp.status = 400
            /\ r.resp.message = IF u[1] = "" \/ u[3] = "" THEN "Missing orgId or config"
                                ELSE "Invalid JSON in config field"
            /\ r.configs = configFile
            /\ r.orgs = orgFile

\* C10 witness: a config that is not JSON has been answered 400 with a
\* store that holds an organization and a configuration entry.
C10_Witness ==
    /\ resp.status = 400
    /\ resp.message = "Invalid JSON in config field"
    /\ orgFile # <<>>
    /\ configFile # <<>>

\* The positions of the organization list whose id, as a string, is orgId.
IdMatches(orgs, orgId) == {i \in 1..Len(orgs) : String(orgs[i].ORG_ID) = orgId}

\* C11: a well-formed updateOrgConfig request for an orgId that is, as a
\* string, the id of a record of the organization list leaves the list as
\* it was, and the list then holds exactly one record for that id.
C11_ExistingOrgListUnchanged ==
    \A u \in ValidUpdates :
        IdMatches(orgFile, u[1]) # {} =>
            LET r == updateOrgConfigResult(orgFile, configFile, u[1], u[2], u[3])
            IN  /\ r.resp.status = 200
                /\ r.orgs = orgFile
                /\ Cardinality(IdMatches(r.orgs, u[1])) = 1

\* C12: every key of the configuration map is the string form of the id
\* of some record of the organization list.
C12_ConfigKeysNameOrgs ==
    \A k \in 1..Len(configFile) :
        \E i \in 1..Len(orgFile) : String(orgFile[i].ORG_ID) = configFile[k].key

\* C13: every request leaves each record of the organization list at its
\* position with its id and its name: the list before the request is a
\* prefix of the list after it.
C13_OrgListAppendOnly ==
    [][/\ Len(orgFile') >= Len(orgFile)
       /\ SubSeq(orgFile', 1, Len(orgFile)) = orgFile]_vars

\* C13 witness: createOrg has appended a record behind one that an
\* updateOrgConfig request had auto-created, and that record is in place.
C13_Witness ==
    /\ Created
    /\ Len(orgFile) = 2
    /\ orgFile[1] = [ORG_ID |-> JSNum(<<2000000, 0>>), ORG_NAME |-> "Org-2000000000000"]
    /\ orgFile[2] = resp.orgs[1]

\* C14: a getOrgConfig request for an orgId that is, as a string, the id
\* of no record of the organization list is answered 500 "OrgId not found"
\* without a document, whatever the configuration map holds.
C14_UnknownOrgNotFound ==
    \A orgId \in OrgIds :
        IdMatches(orgFile, orgId) = {} =>
            LET r == getOrgConfigResult(orgFile, configFile, orgId)
            IN  /\ r.status = 500
                /\ r.message = "OrgId not found"
                /\ r.docs = <<>>

\* C14 witness: getOrgConfig has answered "OrgId not found" while the map
\* holds an entry under a key that names no organization, and that entry is
\* marked isDefault.
C14_Witness ==
    /\ resp.status = 500
    /\ resp.message = "OrgId not found"
    /\ resp.docs = <<>>
    /\ \E k \in 1..Len(configFile) :
          /\ IdMatches(orgFile, configFile[k].key) = {}
          /\ configFile[k].doc["isDefault"] = TRUE

\* C15: a well-formed updateOrgConfig request for an orgId under which the
\* configuration map has no entry returns and stores the hardcoded default
\* with the keys of the incoming partial overwritten, whatever other
\* entries the map holds.
C15_MergeBaseIsHardcodedDefault ==
    \A u \in ValidUpdates :
        ~HasEntry(configFile, u[1]) =>
            LET r == updateOrgConfigResult(orgFile, configFile, u[1], u[2], u[3])
                D == [k \in (DOMAIN DEFAULT_CONFIG) \cup (DOMAIN Partial(u[3])) |->
                        IF k \in DOMAIN Partial(u[3]) THEN Partial(u[3])[k]
                        ELSE DEFAULT_CONFIG[k]]
            IN  /\ r.resp.status = 200
                /\ r.resp.docs = <<D>>
                /\ HasEntry(r.configs, u[1])
                /\ EntryDoc(r.configs, u[1]) = D

\* C16: a well-formed updateOrgConfig request for an orgId that is, as a
\* string, the id of no record of the organization list appends exactly
\* one record, with the id Number(orgId) when that is not NaN and else the
\* string orgId, and with the name orgName when one is sent and else
\* "Org-<orgId>"; and the configuration map then holds the returned
\* document under the key orgId.
C16_AutoCreate ==
    \A u \in ValidUpdates :
        IdMatches(orgFile, u[1]) = {} =>
            LET r == updateOrgConfigResult(orgFile, configFile, u[1], u[2], u[3])
                n == Number(JSStr(u[1]))
            IN  /\ r.resp.status = 200
                /\ r.orgs = Append(orgFile,
                       [ORG_ID |-> IF n.t = "NaN" THEN JSStr(u[1]) ELSE n,
                        ORG_NAME |-> IF u[2] # "" THEN u[2] ELSE "Org-" \o u[1]])
                /\ HasEntry(r.configs, u[1])
                /\ EntryDoc(r.configs, u[1]) = r.resp.docs[1]

\* C17: when a well-formed updateOrgConfig request for orgId succeeds and
\* returns the document D, a getOrgConfig request for the same orgId
\* handled next succeeds and returns D.
C17_ReadYourWrite ==
    \A u \in ValidUpdates :
        LET w == updateOrgConfigResult(orgFile, configFile, u[1], u[2], u[3])
            g == getOrgConfigResult(w.orgs, w.configs, u[1])
        IN  w.resp.status = 200 =>
                /\ g.status = 200
                /\ g.docs = w.resp.docs

\* The id an orgId stands for: the number it parses as, else the string.
IdOf(orgId) ==
    LET n == Number(JSStr(orgId))
    IN  IF n.t = "NaN" THEN JSStr(orgId) ELSE n

\* C18: after a well-formed updateOrgConfig request for the organization A
\* whose partial has no isDefault key, a getOrgConfig request for an
\* organization B of the list with another id, under whose id the
\* configuration map has no entry, returns the hardcoded default and not
\* the document stored for A.
C18_TenantIsolation ==
    \A u \in ValidUpdates : \A B \in OrgIds :
        LET w == updateOrgConfigResult(orgFile, configFile, u[1], u[2], u[3])
            g == getOrgConfigResult(w.orgs, w.configs, B)
        IN  (/\ IdOf(B) # IdOf(u[1])
             /\ "isDefault" \notin DOMAIN Partial(u[3])
             /\ w.resp.status = 200
             /\ IdMatches(w.orgs, B) # {}
             /\ ~HasEntry(w.configs, B)) =>
                /\ g.status = 200
                /\ HasEntry(w.configs, u[1]) => g.docs # <<EntryDoc(w.configs, u[1])>>
                /\ g.docs = <<DEFAULT_CONFIG>>

\* An answered request of a process's log: a successful createOrg, a
\* successful updateOrgConfig.
RaceCreated(e) == e.req[1] = "createOrg" /\ e.resp.status = 200

RaceUpdated(e) == e.req[1] = "updateOrgConfig" /\ e.resp.status = 200

\* The organization list holds this record.
InList(orgs, org) == \E i \in 1..Len(orgs) : orgs[i] = org

\* C19: with two processes whose reads and writes of the files are
\* separate steps, (1) two successful createOrg requests with different
\* names, answered by different processes from the same organization list
\* as read, were given the same id, and the organization list never holds
\* both of the records they were answered with; (2) when the last requests
\* of both processes are successful updateOrgConfig requests for different
\* orgIds, merged on the same configuration map as read, a map with an
\* entry for neither, the configuration map holds the entry of exactly one
\* of them.
C19_LostUpdate ==
    \A p, q \in Procs :
        p # q =>
            /\ \A i \in 1..Len(proc[p].log) : \A j \in 1..Len(proc[q].log) :
                  LET a == proc[p].log[i]
                      b == proc[q].log[j]
                  IN  (/\ RaceCreated(a)
                       /\ RaceCreated(b)
                       /\ a.req[2] # b.req[2]
                       /\ a.orgs = b.orgs) =>
                          /\ a.resp.orgs[1].ORG_ID = b.resp.orgs[1].ORG_ID
                          /\ ~(InList(orgFile, a.resp.orgs[1]) /\ InList(orgFile, b.resp.orgs[1]))
            /\ (/\ proc[p].pc = "idle"
                /\ proc[q].pc = "idle"
                /\ proc[p].log # <<>>
                /\ proc[q].log # <<>>) =>
                  LET a == proc[p].log[Len(proc[p].log)]
                      b == proc[q].log[Len(proc[q].log)]
                  IN  (/\ RaceUpdated(a)
                       /\ RaceUpdated(b)
                       /\ a.req[2] # b.req[2]
                       /\ a.configs = b.configs
                       /\ ~HasEntry(a.configs, a.req[2])
                       /\ ~HasEntry(a.configs, b.req[2])) =>
                          HasEntry(configFile, a.req[2]) # HasEntry(configFile, b.req[2])

\* C19 witness: both processes have answered a createOrg request and then
\* an updateOrgConfig request, all four with success.  The two createOrg
\* requests had read the same list and got the same id, and the list holds
\* one of the two records; the two updateOrgConfig requests had read the
\* same map, and the map holds the entry of one of the two.
C19_Witness ==
    /\ \A p \in Procs :
          /\ proc[p].pc = "idle"
          /\ Len(proc[p].log) = 2
          /\ RaceCreated(proc[p].log[1])
          /\ RaceUpdated(proc[p].log[2])
    /\ proc[1].log[1].orgs = proc[2].log[1].orgs
    /\ proc[1].log[1].req[2] # proc[2].log[1].req[2]
    /\ proc[1].log[1].resp.orgs[1].ORG_ID = proc[2].log[1].resp.orgs[1].ORG_ID
    /\ InList(orgFile, proc[1].log[1].resp.orgs[1]) # InList(orgFile, proc[2].log[1].resp.orgs[1])
    /\ proc[1].log[2].configs = proc[2].log[2].configs
    /\ proc[1].log[2].req[2] # proc[2].log[2].req[2]
    /\ Len(configFile) = 1
    /\ HasEntry(configFile, proc[1].log[2].req[2]) # HasEntry(configFile, proc[2].log[2].req[2])

====
